---- MODULE Spec2Model ----
(***************************************************************************)
(* cwfriend: linear VCC glitch sweep against the STM32 ROM bootloader.     *)
(*                                                                         *)
(* The model follows the run of test_stm32.py after its objects have been  *)
(* constructed: search.search() inside try/except KeyboardInterrupt, the   *)
(* sweep loops of LinearVCCGlitchSearch, test_parameter_set, and one trial *)
(* (STM32ReadoutLevel1Context.test_one) step by step.                      *)
(*                                                                         *)
(* Times (offsets, widths, the glitch clock period) are whole numbers of   *)
(* ticks, so that the additions and comparisons of the sweep are exact, as *)
(* they are in floating point for the dyadic values the bounds stand for.  *)
(* Quotients (glitch.offset, glitch.width) are kept as exact fractions     *)
(* [n |-> numerator, d |-> denominator].                                   *)
(*                                                                         *)
(* Exceptions follow Python: an exception nobody catches unwinds through   *)
(* test_one, test_parameter_set and search() to the top of the script,     *)
(* which handles KeyboardInterrupt only.  `except ValueError,              *)
(* OddResultException:` (stm32.py:67) is read as the unparenthesised       *)
(* tuple form (PEP 758), the only reading under which the module loads:    *)
(* it catches both classes and nothing else.                               *)
(***************************************************************************)
EXTENDS Integers, Sequences, FiniteSets, TLC

\* ---------------------------------------------------------------- bounds
HalfPeriod == 2
MaxCells == 4
MaxAttempts == 2

\* ------------------------------------------------------------- constants
\* stm32.py:13-17
BOOTLOADER_INIT == <<127>>
ACK == 121
NACK == 31
COMMAND_READ == <<17, 238>>

\* result.py:18-21 (IntEnum values)
NORMAL == 1
MUTE == 2
ODD == 3
SUCCESSFUL == 4

Result == {NORMAL, MUTE, ODD, SUCCESSFUL}

\* Result.name
ResultName(r) ==
    CASE r = NORMAL -> "NORMAL"
      [] r = MUTE -> "MUTE"
      [] r = ODD -> "ODD"
      [] r = SUCCESSFUL -> "SUCCESSFUL"

\* What SerialContext.read(1) can return: an empty list, or a list of one
\* byte (the ACK byte, the NACK byte, or some other byte such as 0x42).
RxBytes == {ACK, NACK, 66}
RxReads == {<<>>} \cup {<<b>> : b \in RxBytes}

\* glitch_clk_period = 1 / glitch_clk_freq, in ticks, at the clock frequency
\* the sweep runs with (clkgen_freq = 1 in units of that frequency)
glitch_clk_period == 2 * HalfPeriod

\* ---------------------------------------------------------------- inputs
\* Grids of at most MaxCells cells.  Offsets advance by one clock period
\* from 0 or from 3/4 (then 2/3, ...) of a period; widths advance by half a
\* period from 0, so that rows of three or more cells reach widths of one
\* period and more.
GridShapes ==
    {sh \in (1..MaxCells) \X (1..MaxCells) : sh[1] * sh[2] <= MaxCells}
OffsetStarts == {0, HalfPeriod + 1}
OffsetRange(s, n) == <<s, s + n * glitch_clk_period, glitch_clk_period>>
WidthRange(n) == <<0, n * HalfPeriod, HalfPeriod>>

VARIABLES
    pc,               \* position of the script
    exc,              \* exception that is propagating / ended the run
    exc_in,           \* where it was raised
    attempts, ext_only, context_hooks,
    offset_start, offset_end, offset_inc, current_offset,
    width_start, width_end, width_inc, current_width,
    results,          \* self.results: the accumulated rows
    glitch,           \* scope.glitch settings written by the calculator
    glitch_lp, glitch_hp, nrst,   \* scope.io
    attempt_results,  \* local `results` of test_parameter_set
    hook_log,         \* calls made by the current test_parameter_set
    wire,             \* writes to the serial transport in this trial
    init_rx, cmd_rx,  \* what read(1) returned at Init / at the command
    init_ok,          \* return value of init_bootloader (unused by test_one)
    outcome,          \* return value of test_one
    cells_done,       \* completed calls of test_parameter_set
    stopped,          \* the operator's stop signal has been delivered
    stop_between,     \* ... and it arrived between two grid points
    results_at_stop,  \* self.results when it arrived
    cells_at_stop,    \* cells_done when it arrived
    cmd_nacked,       \* every command of the run so far was answered NACK
    clkgen_freq,      \* scope.clock.clkgen_freq, in units of the sweep's clock
    min_width_percent_x10,  \* self.min_width_percent, in tenths of a percent
    nrst_log,         \* values driven on the reset line in this trial
    calc,             \* the last direct call of a calculator method
    probe_ret,        \* return value of check_bootloader
    row_calcs,        \* calls of calculate_offset_parameters made by search()
    cell_calcs        \* calls of calculate_width_parameters made by search()

vars == <<pc, exc, exc_in, attempts, ext_only, context_hooks,
          offset_start, offset_end, offset_inc, current_offset,
          width_start, width_end, width_inc, current_width,
          results, glitch, glitch_lp, glitch_hp, nrst,
          attempt_results, hook_log, wire, init_rx, cmd_rx, init_ok,
          outcome, cells_done, stopped, stop_between, results_at_stop,
          cells_at_stop, cmd_nacked, clkgen_freq, min_width_percent_x10,
          nrst_log, calc, probe_ret, row_calcs, cell_calcs>>

config_vars == <<attempts, ext_only, context_hooks, offset_start, offset_end,
                 offset_inc, width_start, width_end, width_inc,
                 clkgen_freq, min_width_percent_x10>>
call_vars == <<calc, probe_ret>>
count_vars == <<row_calcs, cell_calcs>>
stop_vars == <<stopped, stop_between, results_at_stop, cells_at_stop>>
trial_vars == <<wire, init_rx, cmd_rx, init_ok, outcome>>
io_vars == <<glitch_lp, glitch_hp, nrst>>

NoRx == <<0>>
NoOutcome == 0 - 1
NoCall == [fn |-> "none"]

\* ------------------------------------------------- parameter calculator
\* glitch_clk_period = 1 / glitch_clk_freq for the frequency f # 0 (the
\* frequencies drawn divide the period of the sweep's clock exactly)
Period(f) ==
    IF f > 0 THEN glitch_clk_period \div f
    ELSE 0 - (glitch_clk_period \div (0 - f))

\* x / Period(clkgen_freq) as the fraction Num(x) / Den with Den > 0
Den == IF Period(clkgen_freq) < 0 THEN 0 - Period(clkgen_freq)
       ELSE Period(clkgen_freq)
Num(x) == IF Period(clkgen_freq) < 0 THEN 0 - x ELSE x

\* math.floor(x / glitch_clk_period)
Floor(x) == Num(x) \div Den

\* numerator of math.modf(x / glitch_clk_period)[0] over Den;
\* modf keeps the sign of its argument
ModfNum(x) ==
    IF Num(x) >= 0 THEN Num(x) % Den ELSE 0 - ((0 - Num(x)) % Den)

\* VCCGlitchSearchStrategy.constrain_width on the fraction w = n/d:
\* w * (49.8 - min_width_percent) / 100 + min_width_percent
constrain_width(w) ==
    [n |-> w.n * (498 - min_width_percent_x10) + 100 * min_width_percent_x10 * w.d,
     d |-> 1000 * w.d]

\* the ext_only flag not looked at
calculate_offset_parameters_fraction(g, desired_offset, only) ==
    LET ext_offset == Floor(desired_offset)
        frac == ModfNum(desired_offset)
        g1 == [g EXCEPT !.ext_offset = ext_offset, !.offset_fine = 0]
    IN  IF 2 * frac > Den
        THEN [g1 EXCEPT !.ext_offset = ext_offset + 1,
                        !.offset = [n |-> 0 - 10, d |-> 1]]
        ELSE [g1 EXCEPT !.offset = [n |-> 10, d |-> 1]]

\* the method left after its first write of the coarse offset and its
\* write of the sub-cycle offset, before the increment
calculate_offset_parameters_first_write(g, desired_offset, only) ==
    LET frac == ModfNum(desired_offset)
        g1 == [g EXCEPT !.ext_offset = Floor(desired_offset), !.offset_fine = 0]
    IN  IF only THEN g1
        ELSE IF 2 * frac > Den
             THEN [g1 EXCEPT !.offset = [n |-> (Den - frac) * (0 - 10), d |-> Den]]
             ELSE [g1 EXCEPT !.offset = [n |-> 10, d |-> 1]]

\* VCCGlitchSearchStrategy.calculate_offset_parameters
calculate_offset_parameters(g, desired_offset, only) ==
    LET P == Den
        ext_offset == Floor(desired_offset)
        g1 == [g EXCEPT !.ext_offset = ext_offset, !.offset_fine = 0]
        frac == ModfNum(desired_offset)
        neg == (P - frac) * (0 - 10)      \* negative_offset * P
    IN  IF only THEN g1
        ELSE IF 2 * frac > P
             THEN [g1 EXCEPT
                     !.ext_offset = ext_offset + 1,
                     !.offset = IF (0 - P) < neg /\ neg < P
                                THEN [n |-> 0 - 10, d |-> 1]
                                ELSE [n |-> neg, d |-> P]]
             ELSE [g1 EXCEPT
                     !.offset = IF (0 - P) < frac /\ frac < P
                                THEN [n |-> 10, d |-> 1]
                                ELSE [n |-> frac * 10, d |-> P]]

\* the width always put into a single cycle, the repeat count never used
calculate_width_parameters_single(g, desired_width) ==
    [g EXCEPT !.width_fine = 0,
              !.width = constrain_width(
                          [n |-> Num(desired_width) * 100, d |-> Den]),
              !.repeat = 1]

\* VCCGlitchSearchStrategy.calculate_width_parameters
calculate_width_parameters(g, desired_width) ==
    LET max_single_width == Period(clkgen_freq)
        g1 == [g EXCEPT !.width_fine = 0]
    IN  IF desired_width < max_single_width
        THEN [g1 EXCEPT
                !.width = constrain_width(
                            [n |-> Num(desired_width) * 100, d |-> Den]),
                !.repeat = 1]
        ELSE [g1 EXCEPT
                !.width = constrain_width(
                            constrain_width(
                              [n |-> ModfNum(desired_width), d |-> Den])),
                !.repeat = Floor(desired_width)]

\* ------------------------------------------------------------------ Init
Unset == [n |-> 0, d |-> 1]

Init ==
    /\ pc = "search"
    /\ exc = "none"
    /\ exc_in = "none"
    /\ attempts \in 1..MaxAttempts
    /\ ext_only = FALSE
    /\ context_hooks \in BOOLEAN
    /\ clkgen_freq = 1
    /\ min_width_percent_x10 = 350
    /\ \E sh \in GridShapes, s \in OffsetStarts :
          /\ offset_start = OffsetRange(s, sh[1])[1]
          /\ offset_end = OffsetRange(s, sh[1])[2]
          /\ offset_inc = OffsetRange(s, sh[1])[3]
          /\ width_start = WidthRange(sh[2])[1]
          /\ width_end = WidthRange(sh[2])[2]
          /\ width_inc = WidthRange(sh[2])[3]
    /\ current_offset = offset_start
    /\ current_width = width_start
    /\ results = <<>>
    /\ glitch = [ext_offset |-> 0, offset |-> Unset, offset_fine |-> 0,
                 width |-> Unset, width_fine |-> 0, repeat |-> 1]
    /\ glitch_lp = TRUE
    /\ glitch_hp = FALSE
    /\ nrst = "high"
    /\ attempt_results = <<>>
    /\ hook_log = <<>>
    /\ wire = <<>>
    /\ init_rx = NoRx
    /\ cmd_rx = NoRx
    /\ init_ok = FALSE
    /\ outcome = NoOutcome
    /\ cells_done = 0
    /\ stopped = FALSE
    /\ stop_between = FALSE
    /\ results_at_stop = <<>>
    /\ cells_at_stop = 0
    /\ cmd_nacked = TRUE
    /\ nrst_log = <<>>
    /\ calc = NoCall
    /\ probe_ret = "none"
    /\ row_calcs = 0
    /\ cell_calcs = 0

\* ------------------------------------------------------- protocol trial
\* STM32ReadoutLevel1Context.read_ack on what read(1) returned:
\* the value returned, or the exception raised.  The element read compares
\* equal to ACK (NACK) exactly when it is the ACK (NACK) byte.
read_ack(rx) ==
    IF rx = <<>> THEN "IndexError"
    ELSE IF rx[1] = ACK THEN "True"
    ELSE IF rx[1] = NACK THEN "ValueError"
    ELSE "OddResultException"

\* the except clause of init_bootloader
init_bootloader_caught == {"ValueError", "OddResultException"}

\* variant: the address frame follows the command in the same trial
start_read_memory_write_address(w) ==
    Append(Append(w, COMMAND_READ), <<8, 0, 0, 0, 8>>)

\* what start_read_memory writes
start_read_memory_write(w) == Append(w, COMMAND_READ)

\* variant: the IndexError and OddResultException handlers exchanged
test_one_result_swapped(rx) ==
    CASE read_ack(rx) = "ValueError" -> NORMAL
      [] read_ack(rx) = "OddResultException" -> MUTE
      [] read_ack(rx) = "IndexError" -> ODD
      [] read_ack(rx) = "True" -> SUCCESSFUL

\* the try/except of test_one around start_read_memory
test_one_result(rx) ==
    CASE read_ack(rx) = "ValueError" -> NORMAL
      [] read_ack(rx) = "OddResultException" -> ODD
      [] read_ack(rx) = "IndexError" -> MUTE
      [] read_ack(rx) = "True" -> SUCCESSFUL

\* ---------------------------------------------------------- sweep engine
\* variant: min() in place of max()
Min(S) == CHOOSE v \in S : \A u \in S : v <= u

\* max(results)
Max(S) == CHOOSE v \in S : \A u \in S : u <= v

\* variant: the first result is recorded whether or not the results agree
most_important_result_first(rs) == rs[1]

\* the set / max reduction at the end of test_parameter_set
most_important_result(rs) ==
    LET unique_results == {rs[i] : i \in DOMAIN rs}
    IN  IF Cardinality(unique_results) = 1
        THEN rs[1]
        ELSE Max(unique_results)

\* variant: the new row replaces the table instead of extending it
add_result_replace(rs, result) ==
    <<[offset |-> current_offset,
       width |-> current_width,
       result |-> ResultName(result)]>>

\* variant: the new row is put in front of the table
add_result_prepend(rs, result) ==
    <<[offset |-> current_offset,
       width |-> current_width,
       result |-> ResultName(result)]>> \o rs

\* LinearVCCGlitchSearch.add_result
add_result(rs, result) ==
    Append(rs, [offset |-> current_offset,
                width |-> current_width,
                result |-> ResultName(result)])

\* variant: the width is not restarted on a new offset
row_first_width_kept == current_width

\* search(): self.current_width = self.width_start at the top of each row
row_first_width == width_start

Running == {"search", "outer", "inner", "attempt", "reset_low", "reset_high",
            "init_write", "init_read", "cmd_write", "cmd_read", "trial_ret"}
BetweenGridPoints == {"search", "outer", "inner"}

\* search(): the two assignments before the loops
SearchStart ==
    /\ pc = "search"
    /\ current_offset' = offset_start
    /\ current_width' = width_start
    /\ pc' = "outer"
    /\ UNCHANGED <<exc, exc_in, config_vars, call_vars, count_vars, nrst_log, results, glitch, io_vars,
                   attempt_results, hook_log, trial_vars, cells_done, stop_vars, cmd_nacked>>

\* while self.current_offset < self.offset_end: (true)
OuterEnter ==
    /\ pc = "outer"
    /\ current_offset < offset_end
    /\ current_width' = row_first_width
    /\ glitch' = calculate_offset_parameters(glitch, current_offset, ext_only)
    /\ row_calcs' = row_calcs + 1
    /\ pc' = "inner"
    /\ UNCHANGED <<exc, exc_in, config_vars, call_vars, cell_calcs, nrst_log,
                   current_offset, results, io_vars, attempt_results, hook_log,
                   trial_vars, cells_done, stop_vars, cmd_nacked>>

\* while self.current_offset < self.offset_end: (false) -- search() returns,
\* the try block of test_stm32.py ends and the script is over
SearchReturn ==
    /\ pc = "outer"
    /\ ~(current_offset < offset_end)
    /\ pc' = "done"
    /\ UNCHANGED <<exc, exc_in, config_vars, call_vars, count_vars, nrst_log, current_offset, current_width,
                   results, glitch, io_vars, attempt_results, hook_log,
                   trial_vars, cells_done, stop_vars, cmd_nacked>>

\* while self.current_width < self.width_end: (true), up to the start of
\* test_parameter_set
InnerEnter ==
    /\ pc = "inner"
    /\ current_width < width_end
    /\ glitch' = calculate_width_parameters(glitch, current_width)
    /\ cell_calcs' = cell_calcs + 1
    /\ attempt_results' = <<>>
    /\ hook_log' = <<>>
    /\ pc' = "attempt"
    /\ UNCHANGED <<exc, exc_in, config_vars, call_vars, row_calcs, nrst_log,
                   current_offset, current_width, results, io_vars, trial_vars,
                   cells_done, stop_vars, cmd_nacked>>

\* while self.current_width < self.width_end: (false)
InnerExit ==
    /\ pc = "inner"
    /\ ~(current_width < width_end)
    /\ current_offset' = current_offset + offset_inc
    /\ pc' = "outer"
    /\ UNCHANGED <<exc, exc_in, config_vars, call_vars, count_vars, nrst_log, current_width, results, glitch,
                   io_vars, attempt_results, hook_log, trial_vars, cells_done,
                   stop_vars, cmd_nacked>>

\* for _ in range(self.attempts): self.context.test_setup(), on a context
\* that defines the hook
TestSetup ==
    /\ pc = "attempt"
    /\ Len(attempt_results) < attempts
    /\ context_hooks
    /\ hook_log' = Append(hook_log, "test_setup")
    /\ pc' = "reset_low"
    /\ UNCHANGED <<exc, exc_in, config_vars, call_vars, count_vars, nrst_log, current_offset, current_width,
                   results, glitch, io_vars, attempt_results, trial_vars,
                   cells_done, stop_vars, cmd_nacked>>

\* self.context.test_setup() on a context without the hook (Context and
\* STM32ReadoutLevel1Context define none): AttributeError, caught nowhere
TestSetupMissing ==
    /\ pc = "attempt"
    /\ Len(attempt_results) < attempts
    /\ ~context_hooks
    /\ exc' = "AttributeError"
    /\ exc_in' = "test_setup"
    /\ pc' = "crashed"
    /\ UNCHANGED <<config_vars, call_vars, count_vars, nrst_log, current_offset, current_width, results, glitch,
                   io_vars, attempt_results, hook_log, trial_vars, cells_done,
                   stop_vars, cmd_nacked>>

\* the reset line left asserted
reset_sequence_stuck == <<"low", "low">>

\* Context.reset() with cut_power False: scope.io.nrst = "low", sleep,
\* scope.io.nrst = "high", sleep
reset_sequence == <<"low", "high">>

\* test_one -> Context.reset(): nrst low, sleep
ResetLow ==
    /\ pc = "reset_low"
    /\ hook_log' = Append(hook_log, "test_one")
    /\ nrst' = reset_sequence[1]
    /\ nrst_log' = Append(nrst_log, reset_sequence[1])
    /\ pc' = "reset_high"
    /\ UNCHANGED <<exc, exc_in, config_vars, call_vars, count_vars, current_offset, current_width,
                   results, glitch, glitch_lp, glitch_hp, attempt_results,
                   trial_vars, cells_done, stop_vars, cmd_nacked>>

\* Context.reset(): nrst high, sleep
ResetHigh ==
    /\ pc = "reset_high"
    /\ nrst' = reset_sequence[2]
    /\ nrst_log' = Append(nrst_log, reset_sequence[2])
    /\ pc' = "init_write"
    /\ UNCHANGED <<exc, exc_in, config_vars, call_vars, count_vars, current_offset, current_width,
                   results, glitch, glitch_lp, glitch_hp, attempt_results,
                   hook_log, trial_vars, cells_done, stop_vars, cmd_nacked>>

\* init_bootloader: self.write(BOOTLOADER_INIT)
InitWrite ==
    /\ pc = "init_write"
    /\ wire' = Append(wire, BOOTLOADER_INIT)
    /\ pc' = "init_read"
    /\ UNCHANGED <<exc, exc_in, config_vars, call_vars, count_vars, nrst_log, current_offset, current_width,
                   results, glitch, io_vars, attempt_results, hook_log,
                   init_rx, cmd_rx, init_ok, outcome, cells_done, stop_vars, cmd_nacked>>

\* init_bootloader: read_ack() inside try/except; test_one drops the value
InitRead ==
    /\ pc = "init_read"
    /\ \E rx \in RxReads :
          /\ init_rx' = rx
          /\ IF read_ack(rx) = "True" \/ read_ack(rx) \in init_bootloader_caught
             THEN /\ init_ok' = (read_ack(rx) = "True")
                  /\ pc' = "cmd_write"
                  /\ UNCHANGED <<exc, exc_in>>
             ELSE /\ exc' = read_ack(rx)
                  /\ exc_in' = "test_one"
                  /\ pc' = "crashed"
                  /\ UNCHANGED init_ok
    /\ UNCHANGED <<config_vars, call_vars, count_vars, nrst_log, current_offset, current_width, results, glitch,
                   io_vars, attempt_results, hook_log, wire, cmd_rx, outcome,
                   cells_done, stop_vars, cmd_nacked>>

\* start_read_memory: self.write(COMMAND_READ)
CmdWrite ==
    /\ pc = "cmd_write"
    /\ wire' = start_read_memory_write(wire)
    /\ pc' = "cmd_read"
    /\ UNCHANGED <<exc, exc_in, config_vars, call_vars, count_vars, nrst_log, current_offset, current_width,
                   results, glitch, io_vars, attempt_results, hook_log,
                   init_rx, cmd_rx, init_ok, outcome, cells_done, stop_vars, cmd_nacked>>

\* start_read_memory: read_ack(), and the rest of test_one
CmdRead ==
    /\ pc = "cmd_read"
    /\ \E rx \in RxReads :
          /\ cmd_rx' = rx
          /\ outcome' = test_one_result(rx)
          /\ cmd_nacked' = (cmd_nacked /\ rx = <<NACK>>)
    /\ pc' = "trial_ret"
    /\ UNCHANGED <<exc, exc_in, config_vars, call_vars, count_vars, nrst_log, current_offset, current_width,
                   results, glitch, io_vars, attempt_results, hook_log,
                   wire, init_rx, init_ok, cells_done, stop_vars>>

\* test_teardown(); results.append(result); time.sleep(iteration_delay)
AttemptEnd ==
    /\ pc = "trial_ret"
    /\ hook_log' = hook_log \o <<"test_teardown", "sleep">>
    /\ attempt_results' = Append(attempt_results, outcome)
    /\ wire' = <<>>
    /\ init_rx' = NoRx
    /\ cmd_rx' = NoRx
    /\ init_ok' = FALSE
    /\ outcome' = NoOutcome
    /\ nrst_log' = <<>>
    /\ pc' = "attempt"
    /\ UNCHANGED <<exc, exc_in, config_vars, call_vars, count_vars, current_offset, current_width,
                   results, glitch, io_vars, cells_done, stop_vars, cmd_nacked>>

\* the reduction and add_result at the end of test_parameter_set, then
\* self.current_width += self.width_inc
RecordResult ==
    /\ pc = "attempt"
    /\ ~(Len(attempt_results) < attempts)
    /\ results' = add_result(results, most_important_result(attempt_results))
    /\ current_width' = current_width + width_inc
    /\ cells_done' = cells_done + 1
    /\ pc' = "inner"
    /\ UNCHANGED <<exc, exc_in, config_vars, call_vars, count_vars, nrst_log, current_offset, glitch, io_vars,
                   attempt_results, hook_log, trial_vars, stop_vars, cmd_nacked>>

\* the operator's stop signal: KeyboardInterrupt raised at the current
\* position, unwinding to the except clause of test_stm32.py; the frames of
\* test_one and test_parameter_set, and their locals, are gone
Interrupt ==
    /\ pc \in Running
    /\ ~stopped
    /\ stopped' = TRUE
    /\ stop_between' = (pc \in BetweenGridPoints)
    /\ results_at_stop' = results
    /\ cells_at_stop' = cells_done
    /\ exc' = "KeyboardInterrupt"
    /\ exc_in' = "signal"
    /\ attempt_results' = <<>>
    /\ hook_log' = <<>>
    /\ wire' = <<>>
    /\ init_rx' = NoRx
    /\ cmd_rx' = NoRx
    /\ init_ok' = FALSE
    /\ outcome' = NoOutcome
    /\ nrst_log' = <<>>
    /\ pc' = "handler"
    /\ UNCHANGED <<config_vars, call_vars, count_vars, current_offset, current_width, results, glitch,
                   io_vars, cells_done, cmd_nacked>>

\* except KeyboardInterrupt: cfg.teardown()
Teardown ==
    /\ pc = "handler"
    /\ glitch_lp' = FALSE
    /\ glitch_hp' = FALSE
    /\ pc' = "plot"
    /\ UNCHANGED <<exc, exc_in, config_vars, call_vars, count_vars, nrst_log, current_offset, current_width,
                   results, glitch, nrst, attempt_results, hook_log,
                   trial_vars, cells_done, stop_vars, cmd_nacked>>

\* search.plot_results(): reads self.results
PlotResults ==
    /\ pc = "plot"
    /\ pc' = "exited"
    /\ UNCHANGED <<exc, exc_in, config_vars, call_vars, count_vars, nrst_log, current_offset, current_width,
                   results, glitch, io_vars, attempt_results, hook_log,
                   trial_vars, cells_done, stop_vars, cmd_nacked>>

Next ==
    \/ SearchStart
    \/ OuterEnter
    \/ SearchReturn
    \/ InnerEnter
    \/ InnerExit
    \/ TestSetup
    \/ TestSetupMissing
    \/ ResetLow
    \/ ResetHigh
    \/ InitWrite
    \/ InitRead
    \/ CmdWrite
    \/ CmdRead
    \/ AttemptEnd
    \/ RecordResult
    \/ Interrupt
    \/ Teardown
    \/ PlotResults

Spec == Init /\ [][Next]_vars

TypeOK ==
    /\ pc \in Running \cup {"done", "crashed", "handler", "plot", "exited"}
             \cup {"idle", "returned", "raised", "probe_reset_high",
                   "probe_init_write", "probe_init_read", "probe_version"}
    /\ outcome \in Result \cup {NoOutcome}
    /\ \A i \in DOMAIN attempt_results : attempt_results[i] \in Result

\* ------------------------------------------------------ direct calls
\* The methods of a constructed strategy and context called on their own:
\* one call of a calculator for any desired time, clock frequency and minimum
\* width, the constructor of the STM32 context, check_bootloader, and the
\* framing methods send_address and send_size.
MaxCycles == 2

DesiredTimes == (0 - glitch_clk_period)..(MaxCycles * glitch_clk_period + 1)
Freqs == {0 - 1, 0, 1, 2}
MinWidths == {10, 300, 350}

InitialGlitch == [ext_offset |-> 0, offset |-> Unset, offset_fine |-> 0,
                  width |-> Unset, width_fine |-> 0, repeat |-> 1]

InitCalls ==
    /\ pc = "idle"
    /\ exc = "none"
    /\ exc_in = "none"
    /\ attempts = 1
    /\ ext_only \in BOOLEAN
    /\ context_hooks = TRUE
    /\ clkgen_freq \in Freqs
    /\ min_width_percent_x10 \in MinWidths
    /\ offset_start = 0
    /\ offset_end = glitch_clk_period
    /\ offset_inc = glitch_clk_period
    /\ width_start = 0
    /\ width_end = HalfPeriod
    /\ width_inc = HalfPeriod
    /\ current_offset = offset_start
    /\ current_width = width_start
    /\ results = <<>>
    /\ glitch = InitialGlitch
    /\ glitch_lp = TRUE
    /\ glitch_hp = FALSE
    /\ nrst = "high"
    /\ attempt_results = <<>>
    /\ hook_log = <<>>
    /\ wire = <<>>
    /\ init_rx = NoRx
    /\ cmd_rx = NoRx
    /\ init_ok = FALSE
    /\ outcome = NoOutcome
    /\ cells_done = 0
    /\ stopped = FALSE
    /\ stop_between = FALSE
    /\ results_at_stop = <<>>
    /\ cells_at_stop = 0
    /\ cmd_nacked = TRUE
    /\ nrst_log = <<>>
    /\ calc = NoCall
    /\ probe_ret = "none"
    /\ row_calcs = 0
    /\ cell_calcs = 0

sweep_vars == <<attempts, ext_only, context_hooks, offset_start, offset_end,
                offset_inc, width_start, width_end, width_inc, clkgen_freq,
                min_width_percent_x10, current_offset, current_width, results,
                attempt_results, hook_log, cells_done, stop_vars, cmd_nacked,
                glitch_lp, glitch_hp, count_vars>>

\* calculate_offset_parameters(d, ext_only): 1 / glitch_clk_freq raises
\* ZeroDivisionError at frequency 0, before any setting is written; calc
\* keeps the locals ext_offset (line 121) and ext_frac (line 132) of a call
\* that got as far as computing them, and the settings the call found.  The
\* call is the first on the generator or follows a width calculation.
CalculateOffset ==
    /\ \/ pc = "idle"
       \/ pc = "returned" /\ calc.fn = "calculate_width_parameters"
    /\ \E d \in DesiredTimes :
          IF clkgen_freq = 0
          THEN /\ calc' = [fn |-> "calculate_offset_parameters", arg |-> d]
               /\ exc' = "ZeroDivisionError"
               /\ exc_in' = "calculate_offset_parameters"
               /\ pc' = "raised"
               /\ UNCHANGED glitch
          ELSE /\ calc' = IF ext_only
                          THEN [fn |-> "calculate_offset_parameters", arg |-> d,
                                before |-> glitch, ext_offset |-> Floor(d)]
                          ELSE [fn |-> "calculate_offset_parameters", arg |-> d,
                                before |-> glitch, ext_offset |-> Floor(d),
                                ext_frac |-> ModfNum(d)]
               /\ glitch' = calculate_offset_parameters(glitch, d, ext_only)
               /\ pc' = "returned"
               /\ UNCHANGED <<exc, exc_in>>
    /\ UNCHANGED <<sweep_vars, trial_vars, nrst, nrst_log, probe_ret>>

\* calculate_width_parameters(w)
CalculateWidth ==
    /\ pc = "idle"
    /\ \E w \in DesiredTimes :
          /\ calc' = [fn |-> "calculate_width_parameters", arg |-> w]
          /\ IF clkgen_freq = 0
             THEN /\ exc' = "ZeroDivisionError"
                  /\ exc_in' = "calculate_width_parameters"
                  /\ pc' = "raised"
                  /\ UNCHANGED glitch
             ELSE /\ glitch' = calculate_width_parameters(glitch, w)
                  /\ pc' = "returned"
                  /\ UNCHANGED <<exc, exc_in>>
    /\ UNCHANGED <<sweep_vars, trial_vars, nrst, nrst_log, probe_ret>>

\* STM32ReadoutLevel1Context(scope): super().__init__(self, scope,
\* baudrate=...) passes baudrate twice; check_bootloader() is not reached
ContextInit ==
    /\ pc = "idle"
    /\ exc' = "TypeError"
    /\ exc_in' = "__init__"
    /\ pc' = "raised"
    /\ UNCHANGED <<sweep_vars, trial_vars, glitch, nrst, nrst_log, call_vars>>

\* check_bootloader called on a context: self.reset(), nrst low
ProbeResetLow ==
    /\ pc = "idle"
    /\ nrst' = reset_sequence[1]
    /\ nrst_log' = Append(nrst_log, reset_sequence[1])
    /\ pc' = "probe_reset_high"
    /\ UNCHANGED <<exc, exc_in, sweep_vars, trial_vars, glitch, call_vars>>

\* self.reset(), nrst high
ProbeResetHigh ==
    /\ pc = "probe_reset_high"
    /\ nrst' = reset_sequence[2]
    /\ nrst_log' = Append(nrst_log, reset_sequence[2])
    /\ pc' = "probe_init_write"
    /\ UNCHANGED <<exc, exc_in, sweep_vars, trial_vars, glitch, call_vars>>

\* init_bootloader: self.write(BOOTLOADER_INIT)
ProbeInitWrite ==
    /\ pc = "probe_init_write"
    /\ wire' = Append(wire, BOOTLOADER_INIT)
    /\ pc' = "probe_init_read"
    /\ UNCHANGED <<exc, exc_in, sweep_vars, init_rx, cmd_rx, init_ok, outcome,
                   glitch, nrst, nrst_log, call_vars>>

\* init_bootloader: read_ack(); what init_bootloader does not catch is
\* caught by the bare except of check_bootloader, which returns False
ProbeInitRead ==
    /\ pc = "probe_init_read"
    /\ \E rx \in RxReads :
          /\ init_rx' = rx
          /\ IF read_ack(rx) = "True" \/ read_ack(rx) \in init_bootloader_caught
             THEN /\ init_ok' = (read_ack(rx) = "True")
                  /\ pc' = "probe_version"
                  /\ UNCHANGED probe_ret
             ELSE /\ probe_ret' = "False"
                  /\ pc' = "returned"
                  /\ UNCHANGED init_ok
    /\ UNCHANGED <<exc, exc_in, sweep_vars, wire, cmd_rx, outcome, glitch,
                   nrst, nrst_log, calc>>

\* v_major, v_minor = get_version(): no such global name
ProbeGetVersion ==
    /\ pc = "probe_version"
    /\ exc' = "NameError"
    /\ exc_in' = "check_bootloader"
    /\ pc' = "raised"
    /\ UNCHANGED <<sweep_vars, trial_vars, glitch, nrst, nrst_log, call_vars>>

\* a ^ b on bytes
RECURSIVE byte_xor(_, _)
byte_xor(a, b) ==
    IF a = 0 /\ b = 0 THEN 0
    ELSE (((a % 2) + (b % 2)) % 2) + 2 * byte_xor(a \div 2, b \div 2)

\* int.to_bytes(4, byteorder="big")
to_bytes_4_big(x) ==
    <<(x \div 16777216) % 256, (x \div 65536) % 256, (x \div 256) % 256, x % 256>>

\* addresses and sizes a caller may pass: the default address of the
\* context and others with four different bytes; sizes from 1 to 256
Addresses == {134217728, 134218240, 536868832, 305419896}
Sizes == {1, 2, 128, 255, 256}

\* send_address: addr_bytes + checksum, written in one write
send_address_frame(address) ==
    LET addr_bytes == to_bytes_4_big(address)
        checksum == byte_xor(byte_xor(byte_xor(addr_bytes[4], addr_bytes[3]),
                                      addr_bytes[2]), addr_bytes[1])
    IN  Append(addr_bytes, checksum)

\* send_address(address): one write, then read_ack(), whose exceptions
\* leave the method
SendAddress ==
    /\ pc = "idle"
    /\ \E address \in Addresses, rx \in RxReads :
          /\ wire' = Append(wire, send_address_frame(address))
          /\ calc' = [fn |-> "send_address", arg |-> address, rx |-> rx]
          /\ IF read_ack(rx) = "True"
             THEN /\ pc' = "returned"
                  /\ UNCHANGED <<exc, exc_in>>
             ELSE /\ exc' = read_ack(rx)
                  /\ exc_in' = "send_address"
                  /\ pc' = "raised"
    /\ UNCHANGED <<sweep_vars, init_rx, cmd_rx, init_ok, outcome, glitch, nrst,
                   nrst_log, probe_ret>>

\* send_size(size): wire_size = (size - 1).to_bytes(1, ...) is a bytes
\* object, and ~wire_size raises TypeError before anything is written
SendSize ==
    /\ pc = "idle"
    /\ \E size \in Sizes :
          calc' = [fn |-> "send_size", arg |-> size, rx |-> NoRx]
    /\ exc' = "TypeError"
    /\ exc_in' = "send_size"
    /\ pc' = "raised"
    /\ UNCHANGED <<sweep_vars, trial_vars, glitch, nrst, nrst_log, probe_ret>>

NextCalls ==
    \/ SendAddress
    \/ SendSize
    \/ CalculateOffset
    \/ CalculateWidth
    \/ ContextInit
    \/ ProbeResetLow
    \/ ProbeResetHigh
    \/ ProbeInitWrite
    \/ ProbeInitRead
    \/ ProbeGetVersion

SpecCalls == InitCalls /\ [][NextCalls]_vars

\* ------------------------------------------------- any range triples
\* The sweep constructed with any (start, end, increment) triples: __init__
\* stores what it is given, and search() may be called again on the same
\* engine once it has returned.  A run is followed for MaxVisits records.
MaxVisits == 2

OffsetRanges ==
    { <<0, glitch_clk_period, glitch_clk_period>>,
      <<glitch_clk_period, 0, 0 - glitch_clk_period>>,
      <<0, glitch_clk_period, 0>>,
      <<glitch_clk_period, 0, glitch_clk_period>> }

WidthRanges ==
    { <<0, HalfPeriod, HalfPeriod>>,
      <<HalfPeriod, 0, 0 - HalfPeriod>>,
      <<0, HalfPeriod, 0>>,
      <<0, HalfPeriod, 0 - HalfPeriod>>,
      <<HalfPeriod, 0, HalfPeriod>> }

InitRanges ==
    /\ pc = "search"
    /\ exc = "none"
    /\ exc_in = "none"
    /\ attempts = 1
    /\ ext_only = FALSE
    /\ context_hooks \in BOOLEAN
    /\ clkgen_freq = 1
    /\ min_width_percent_x10 = 350
    /\ \E o \in OffsetRanges, w \in WidthRanges :
          /\ offset_start = o[1]
          /\ offset_end = o[2]
          /\ offset_inc = o[3]
          /\ width_start = w[1]
          /\ width_end = w[2]
          /\ width_inc = w[3]
    /\ current_offset = offset_start
    /\ current_width = width_start
    /\ results = <<>>
    /\ glitch = InitialGlitch
    /\ glitch_lp = TRUE
    /\ glitch_hp = FALSE
    /\ nrst = "high"
    /\ attempt_results = <<>>
    /\ hook_log = <<>>
    /\ wire = <<>>
    /\ init_rx = NoRx
    /\ cmd_rx = NoRx
    /\ init_ok = FALSE
    /\ outcome = NoOutcome
    /\ cells_done = 0
    /\ stopped = FALSE
    /\ stop_between = FALSE
    /\ results_at_stop = <<>>
    /\ cells_at_stop = 0
    /\ cmd_nacked = TRUE
    /\ nrst_log = <<>>
    /\ calc = NoCall
    /\ probe_ret = "none"
    /\ row_calcs = 0
    /\ cell_calcs = 0

\* RecordResult for the first MaxVisits records of a run
RecordResultCapped ==
    /\ cells_done < MaxVisits
    /\ RecordResult

\* search() called again on the engine after it has returned
SearchAgain ==
    /\ pc = "done"
    /\ cells_done < MaxVisits
    /\ pc' = "search"
    /\ UNCHANGED <<exc, exc_in, config_vars, call_vars, count_vars, nrst_log, current_offset,
                   current_width, results, glitch, io_vars, attempt_results,
                   hook_log, trial_vars, cells_done, stop_vars, cmd_nacked>>

\* OuterEnter for the first MaxVisits + 1 rows of a run
OuterEnterCapped ==
    /\ row_calcs <= MaxVisits
    /\ OuterEnter

NextRanges ==
    \/ SearchAgain
    \/ SearchStart
    \/ OuterEnterCapped
    \/ SearchReturn
    \/ InnerEnter
    \/ InnerExit
    \/ TestSetup
    \/ TestSetupMissing
    \/ ResetLow
    \/ ResetHigh
    \/ InitWrite
    \/ InitRead
    \/ CmdWrite
    \/ CmdRead
    \/ AttemptEnd
    \/ RecordResultCapped
    \/ Interrupt
    \/ Teardown
    \/ PlotResults

SpecRanges == InitRanges /\ [][NextRanges]_vars

\* ------------------------------------------------------------ reduction
\* The reduction of test_parameter_set on its own: the attempts have all
\* been made and have returned any sequence of outcomes.
MaxOutcomes == 4

OutcomeSeqs == UNION {[1..n -> Result] : n \in 1..MaxOutcomes}

InitReduce ==
    /\ pc = "attempt"
    /\ exc = "none"
    /\ exc_in = "none"
    /\ attempt_results \in OutcomeSeqs
    /\ attempts = Len(attempt_results)
    /\ ext_only = FALSE
    /\ context_hooks = TRUE
    /\ clkgen_freq = 1
    /\ min_width_percent_x10 = 350
    /\ offset_start = 0
    /\ offset_end = glitch_clk_period
    /\ offset_inc = glitch_clk_period
    /\ width_start = 0
    /\ width_end = HalfPeriod
    /\ width_inc = HalfPeriod
    /\ current_offset = offset_start
    /\ current_width = width_start
    /\ results = <<>>
    /\ glitch = calculate_width_parameters(
                   calculate_offset_parameters(
                      [ext_offset |-> 0, offset |-> Unset, offset_fine |-> 0,
                       width |-> Unset, width_fine |-> 0, repeat |-> 1],
                      current_offset, ext_only),
                   current_width)
    /\ glitch_lp = TRUE
    /\ glitch_hp = FALSE
    /\ nrst = "high"
    /\ hook_log = <<>>
    /\ wire = <<>>
    /\ init_rx = NoRx
    /\ cmd_rx = NoRx
    /\ init_ok = FALSE
    /\ outcome = NoOutcome
    /\ cells_done = 0
    /\ stopped = FALSE
    /\ stop_between = FALSE
    /\ results_at_stop = <<>>
    /\ cells_at_stop = 0
    /\ cmd_nacked = \A i \in DOMAIN attempt_results : attempt_results[i] = NORMAL
    /\ nrst_log = <<>>
    /\ calc = NoCall
    /\ probe_ret = "none"
    /\ row_calcs = 0
    /\ cell_calcs = 0

SpecReduce == InitReduce /\ [][RecordResult]_vars

\* =============================================================== claims
TrialReturned == pc = "trial_ret"

HasWritten(frame) == \E i \in DOMAIN wire : wire[i] = frame

\* C1: with the wake byte ACKed, the answer to the read-memory command
\* decides the trial: NACK gives Normal, an empty read gives Mute, a byte
\* that is neither ACK nor NACK gives Odd, and none of these is Successful.
C1_CommandAnswerDecides ==
    (TrialReturned /\ init_rx = <<ACK>>) =>
        /\ cmd_rx = <<NACK>> => outcome = NORMAL
        /\ cmd_rx = <<>> => outcome = MUTE
        /\ (cmd_rx # <<>> /\ cmd_rx[1] \notin {ACK, NACK}) => outcome = ODD
        /\ cmd_rx # <<ACK>> => outcome # SUCCESSFUL

C1_Witness ==
    /\ TrialReturned
    /\ init_rx = <<ACK>>
    /\ cmd_rx = <<66>>
    /\ outcome = ODD

\* C2: the Init phase is decisive: the read-memory command is written only
\* after an ACK at Init, and a trial whose wake byte was answered NACK /
\* by another byte ends as Normal / Odd.
C2_InitDecisive ==
    /\ HasWritten(COMMAND_READ) => init_rx = <<ACK>>
    /\ (TrialReturned /\ init_rx = <<NACK>>) => outcome = NORMAL
    /\ (TrialReturned /\ init_rx # <<>> /\ init_rx[1] \notin {ACK, NACK})
          => outcome = ODD

\* C3: whatever the transport answers, a trial ends by returning one of the
\* four outcomes; no exception leaves test_one.
C3_TrialAlwaysReturnsOutcome ==
    /\ exc_in # "test_one"
    /\ TrialReturned => outcome \in Result

IsPrefix(a, b) ==
    /\ Len(a) <= Len(b)
    /\ \A i \in DOMAIN a : a[i] = b[i]

OutcomeOrder == <<"NORMAL", "MUTE", "ODD", "SUCCESSFUL">>
Rank(name) == CHOOSE i \in DOMAIN OutcomeOrder : OutcomeOrder[i] = name

Reduced == pc = "inner" /\ results # <<>> /\ attempt_results # <<>>
Recorded == results[Len(results)].result
RawNames == [i \in DOMAIN attempt_results |-> ResultName(attempt_results[i])]

\* C5: the value recorded for a grid point is the common value of its raw
\* outcomes if they are all equal, and otherwise their maximum under
\* Normal < Mute < Odd < Successful.
C5_ReduceIsCommonOrMax ==
    Reduced =>
        IF \A i, j \in DOMAIN RawNames : RawNames[i] = RawNames[j]
        THEN Recorded = RawNames[1]
        ELSE /\ \E i \in DOMAIN RawNames : RawNames[i] = Recorded
             /\ \A i \in DOMAIN RawNames : Rank(RawNames[i]) <= Rank(Recorded)

C5_Witness ==
    /\ Reduced
    /\ attempt_results = <<MUTE, SUCCESSFUL, ODD>>
    /\ Recorded = "SUCCESSFUL"

Perms(n) == {f \in [1..n -> 1..n] : \A i, j \in 1..n : f[i] = f[j] => i = j}

\* C6: every permutation of the raw outcomes reduces to the value that was
\* recorded, and k copies of x reduce to x.
C6_ReduceCommutativeIdempotent ==
    Reduced =>
        /\ \A f \in Perms(Len(attempt_results)) :
              ResultName(most_important_result(
                  [i \in DOMAIN attempt_results |-> attempt_results[f[i]]]))
                = Recorded
        /\ \A x \in Result :
              (\A i \in DOMAIN attempt_results : attempt_results[i] = x)
                 => Recorded = ResultName(x)

C6_Witness ==
    /\ Reduced
    /\ attempt_results = <<NORMAL, ODD, NORMAL>>
    /\ Recorded = "ODD"

\* number of values start, start+inc, ... below end (inc > 0)
Steps(start, end, inc) ==
    IF start < end THEN (end - start + inc - 1) \div inc ELSE 0

GridRows == Steps(offset_start, offset_end, offset_inc)
GridCols == Steps(width_start, width_end, width_inc)

\* the k-th cell of the grid in row-major order
GridOffset(k) == offset_start + ((k - 1) \div GridCols) * offset_inc
GridWidth(k) == width_start + ((k - 1) % GridCols) * width_inc

ScenarioGrid ==
    /\ <<offset_start, offset_end, offset_inc>>
          = <<0, 2 * glitch_clk_period, glitch_clk_period>>
    /\ <<width_start, width_end, width_inc>>
          = <<0, glitch_clk_period, HalfPeriod>>
    /\ attempts = 1

RECURSIVE Times(_, _)
Times(n, s) == IF n = 0 THEN <<>> ELSE s \o Times(n - 1, s)

\* C8: every call of test_parameter_set makes exactly `attempts` attempts,
\* each one setup -> test_one -> teardown -> delay, before it is over.
C8_AttemptsAllRun ==
    (pc = "crashed" \/ (pc = "inner" /\ cells_done > 0)) =>
        hook_log =
          Times(attempts, <<"test_setup", "test_one", "test_teardown", "sleep">>)

Exited == pc \in {"done", "crashed", "exited"}

\* C9: the run exits on no path with a glitch output still active.
C9_OutputsOffOnEveryExit ==
    Exited => (~glitch_lp /\ ~glitch_hp)

\* C10: a stop signal arriving between grid points, after k of them, ends
\* the run with exactly the k records there were, unchanged, and with the
\* generator torn down.
C10_StopKeepsRecords ==
    (stopped /\ stop_between) =>
        /\ results = results_at_stop
        /\ Len(results) = cells_at_stop
        /\ pc = "exited" => (~glitch_lp /\ ~glitch_hp)

C10_Witness ==
    /\ pc = "exited"
    /\ stop_between
    /\ GridRows * GridCols = 4
    /\ cells_at_stop = 2
    /\ Len(results) = 2
    /\ ~glitch_lp

\* ------------------------------------------------- calculator contracts
\* d / period written as q + r / Den with q an integer and 0 <= r < Den
CyclesOf(d) ==
    CHOOSE q \in (0 - 2)..(2 * MaxCycles + MaxCells + 2) :
        q * Den <= Num(d) /\ Num(d) < (q + 1) * Den
FractionOf(d) == Num(d) - CyclesOf(d) * Den

OffsetReturned ==
    /\ pc = "returned"
    /\ calc.fn = "calculate_offset_parameters"
    /\ clkgen_freq > 0

\* C11: with ext_only false, when frac(d/p) <= 0.5 the coarse offset left on
\* the generator is floor(d/p) and the sub-cycle offset is non-negative; when
\* frac(d/p) > 0.5 the coarse offset is floor(d/p) + 1 and the sub-cycle
\* offset is negative
C11_BranchByFraction ==
    (OffsetReturned /\ ~ext_only) =>
        IF 2 * FractionOf(calc.arg) <= Den
        THEN glitch.ext_offset = CyclesOf(calc.arg) /\ glitch.offset.n >= 0
        ELSE glitch.ext_offset = CyclesOf(calc.arg) + 1 /\ glitch.offset.n < 0

WidthReturned ==
    /\ pc = "returned"
    /\ calc.fn = "calculate_width_parameters"
    /\ clkgen_freq > 0

\* C12: for a desired width w and clock period p, the repeat count written
\* is 1 when w < p, and is floor(w/p), which is at least 1, when w >= p
C12_RepeatCount ==
    WidthReturned =>
        IF calc.arg < Period(clkgen_freq)
        THEN glitch.repeat = 1
        ELSE /\ glitch.repeat >= 1
             /\ glitch.repeat * Period(clkgen_freq) <= calc.arg
             /\ calc.arg < (glitch.repeat + 1) * Period(clkgen_freq)

\* a width of at least two whole periods has been computed
C12_Witness ==
    /\ WidthReturned
    /\ calc.arg >= 2 * Period(clkgen_freq)
    /\ glitch.repeat >= 2

\* C14: every width written by calculate_width_parameters lies in
\* [min_width_percent, 49.8], for single-cycle, multi-cycle and negative
\* desired widths alike (widths are fractions n/d of a percent, d > 0)
C14_WidthInRange ==
    WidthReturned =>
        /\ glitch.width.n * 10 >= min_width_percent_x10 * glitch.width.d
        /\ glitch.width.n * 10 <= 498 * glitch.width.d

\* ------------------------------------------------------ range contracts
\* a range whose increment is zero or points away from its end
InvalidRange(start, end, inc) ==
    \/ inc = 0
    \/ inc > 0 /\ end < start
    \/ inc < 0 /\ end > start

InvalidRanges ==
    \/ InvalidRange(offset_start, offset_end, offset_inc)
    \/ InvalidRange(width_start, width_end, width_inc)

LoopBody == Running \ {"search", "outer"}

\* C15: a sweep configured with an invalid range is rejected when it is
\* configured: no generator setting is written, no trial is run and the
\* sweep never enters its loops
C15_InvalidRangeRejected ==
    InvalidRanges =>
        /\ glitch = InitialGlitch
        /\ pc \notin LoopBody
        /\ results = <<>>

\* C16: with a clock frequency of zero or below, both calculators fail with
\* InvalidConfiguration and have written no setting to the generator
C16_BadFrequencyRejected ==
    (/\ calc.fn \in {"calculate_offset_parameters", "calculate_width_parameters"}
     /\ clkgen_freq <= 0) =>
        /\ exc = "InvalidConfiguration"
        /\ glitch = InitialGlitch

\* ------------------------------------------------------- baseline probe
ProbeOver ==
    /\ pc \in {"returned", "raised"}
    /\ nrst_log # <<>>

\* C17: given that Init was ACKed, check_bootloader reports True exactly when
\* the read-memory command is NACKed and False exactly when it is ACKed
C17_ProbeReports ==
    (ProbeOver /\ init_rx = <<ACK>>) =>
        /\ probe_ret \in {"True", "False"}
        /\ probe_ret = "True" <=> cmd_rx = <<NACK>>
        /\ probe_ret = "False" <=> cmd_rx = <<ACK>>

\* ascending with a positive increment, or descending with a negative one
AcceptedRange(start, end, inc) ==
    \/ inc > 0 /\ start < end
    \/ inc < 0 /\ start > end

AcceptedRanges ==
    /\ AcceptedRange(offset_start, offset_end, offset_inc)
    /\ AcceptedRange(width_start, width_end, width_inc)

\* C18: for ascending and for descending ranges, when search() has returned
\* the current offset has reached or passed the end of its range in the
\* direction of the sweep
C18_TerminalOffsetPastEnd ==
    (AcceptedRanges /\ pc = "done") =>
        IF offset_inc > 0
        THEN current_offset >= offset_end
        ELSE current_offset <= offset_end

\* -------------------------------------------------------- reset per trial
Communicating == {"init_write", "init_read", "cmd_write", "cmd_read", "trial_ret"}

\* the classification of one command answer, on its own
ClassOf(rx) ==
    IF rx = <<ACK>> THEN SUCCESSFUL
    ELSE IF rx = <<NACK>> THEN NORMAL
    ELSE IF rx = <<>> THEN MUTE
    ELSE ODD

\* C19: in every trial the reset line has been driven low and then high
\* before the first byte is written, the line is high during all of the
\* trial's communication, and the trial's classification is determined by
\* the answer read in this trial, whatever earlier trials returned
C19_TrialStartsFromReset ==
    /\ wire # <<>> => nrst_log = <<"low", "high">>
    /\ pc \in Communicating => (nrst = "high" /\ nrst_log = <<"low", "high">>)
    /\ TrialReturned => outcome = ClassOf(cmd_rx)

\* a second trial of a run, after a Successful first one, classified Normal
C19_Witness ==
    /\ TrialReturned
    /\ attempt_results = <<SUCCESSFUL>>
    /\ wire # <<>>
    /\ nrst_log = <<"low", "high">>
    /\ outcome = NORMAL

\* C20: the fraction that chooses the branch in calculate_offset_parameters
\* is ideal_cycles - floor(ideal_cycles) and lies in [0, 1) for every desired
\* offset, negative ones included, so that coarse + fraction = d / period
\* (ext_frac is a numerator over Den)
C20_FractionInUnitInterval ==
    (OffsetReturned /\ ~ext_only) =>
        /\ calc.ext_frac = FractionOf(calc.arg)
        /\ 0 <= calc.ext_frac /\ calc.ext_frac < Den
        /\ calc.ext_offset * Den + calc.ext_frac = Num(calc.arg)

\* ------------------------------------------------------- near-zero snap
\* n1/d1 = n2/d2 for fractions with positive denominators
SameFraction(a, b) == a.n * b.d = b.n * a.d

\* C21: for a desired offset d >= 0 with fraction f = frac(d/p): when
\* f <= 0.5 the sub-cycle offset written is f * 10, unless f * 10 < 1, in
\* which case 10 is written; when f > 0.5 it is -(1 - f) * 10, unless
\* (1 - f) * 10 < 1, in which case -10 is written
C21_SnapOnEncodedValue ==
    (OffsetReturned /\ ~ext_only /\ calc.arg >= 0) =>
        LET f == FractionOf(calc.arg)
        IN  IF 2 * f <= Den
            THEN IF 10 * f < Den
                 THEN SameFraction(glitch.offset, [n |-> 10, d |-> 1])
                 ELSE SameFraction(glitch.offset, [n |-> 10 * f, d |-> Den])
            ELSE IF 10 * (Den - f) < Den
                 THEN SameFraction(glitch.offset, [n |-> 0 - 10, d |-> 1])
                 ELSE SameFraction(glitch.offset,
                                   [n |-> 0 - 10 * (Den - f), d |-> Den])

\* ---------------------------------------------------------- coarse only
\* C22: with ext_only true, calculate_offset_parameters writes the coarse
\* offset floor(d / period), never incremented, and the fine offset 0, and
\* leaves the sub-cycle offset, width, fine width and repeat as they were
C22_ExtOnlyFrame ==
    (OffsetReturned /\ ext_only) =>
        /\ glitch.ext_offset = CyclesOf(calc.arg)
        /\ glitch.offset_fine = 0
        /\ glitch.offset = calc.before.offset
        /\ glitch.width = calc.before.width
        /\ glitch.width_fine = calc.before.width_fine
        /\ glitch.repeat = calc.before.repeat

\* a coarse-only call for an offset whose fraction is above one half, on a
\* generator that holds a multi-cycle width
C22_Witness ==
    /\ OffsetReturned
    /\ ext_only
    /\ 2 * FractionOf(calc.arg) > Den
    /\ glitch.ext_offset = CyclesOf(calc.arg)
    /\ glitch.repeat >= 2
    /\ glitch.width # Unset

\* ---------------------------------------------------------- append-only
\* C23: in every step the result sequence before is a prefix of the result
\* sequence after; a step adds at most one record, and the record added
\* carries the current offset, the current width and the name of the
\* reduced outcome of the attempts just made
C23_AppendOnly ==
    [][/\ IsPrefix(results, results')
       /\ Len(results') <= Len(results) + 1
       /\ results' # results =>
             LET rec == results'[Len(results')]
             IN  /\ rec.offset = current_offset
                 /\ rec.width = current_width
                 /\ \E i \in DOMAIN RawNames : RawNames[i] = rec.result
                 /\ \A i \in DOMAIN RawNames :
                       Rank(RawNames[i]) <= Rank(rec.result)]_vars

\* a second call of search() on an ascending one-cell grid has added its
\* record after the record of the first call
C23_Witness ==
    /\ AcceptedRanges
    /\ offset_inc > 0
    /\ width_inc > 0
    /\ Len(results) = 2
    /\ results[1].offset = results[2].offset
    /\ results[1].width = results[2].width
    /\ results[1].result # results[2].result

\* -------------------------------------------------------- command framing
Bit(x, b) == (x \div (2 ^ b)) % 2

\* the bytes of a frame XOR to v: in every bit position the number of bytes
\* with the bit set is odd exactly when v has the bit set
RECURSIVE BitCount(_, _)
BitCount(frame, b) ==
    IF frame = <<>> THEN 0
    ELSE Bit(Head(frame), b) + BitCount(Tail(frame), b)
XorsTo(frame, v) == \A b \in 0..7 : BitCount(frame, b) % 2 = Bit(v, b)

FramingCall == calc.fn \in {"send_address", "send_size"}

\* the address half of C24: one write of the 4 address bytes, most
\* significant first, and a checksum byte that makes the 5 bytes XOR to 0;
\* then one acknowledgement byte is awaited
AddressFramed ==
    calc.fn = "send_address" =>
        /\ Len(wire) = 1
        /\ Len(wire[1]) = 5
        /\ \A i \in 1..5 : wire[1][i] \in 0..255
        /\ ((wire[1][1] * 256 + wire[1][2]) * 256 + wire[1][3]) * 256
              + wire[1][4] = calc.arg
        /\ XorsTo(wire[1], 0)
        /\ Len(calc.rx) <= 1

\* C24: send_address writes the 4 address bytes most significant first and
\* their XOR checksum in one write; send_size writes, for every size in
\* 1..256, the byte size - 1 followed by its bitwise complement; each then
\* awaits one acknowledgement byte
C24_CommandFraming ==
    /\ AddressFramed
    /\ calc.fn = "send_size" =>
          /\ wire = << <<calc.arg - 1, 255 - (calc.arg - 1)>> >>
          /\ XorsTo(wire[1], 255)
          /\ exc # "TypeError"

\* ------------------------------------------------- settings in force
InCell == Running \ {"search", "outer", "inner"}

\* C25: while a cell's trials run, the generator holds the settings of the
\* grid point the cell is recorded under: the offset parameters of the
\* current offset, complete (the coarse offset incremented when the fraction
\* is above one half), computed once for the row, and the width parameters
\* of the current width, computed once for the cell
C25_SettingsOfCurrentCell ==
    pc \in InCell =>
        /\ current_offset = GridOffset(cells_done + 1)
        /\ current_width = GridWidth(cells_done + 1)
        /\ LET q == CyclesOf(current_offset)
               above_half == 2 * (Num(current_offset) - q * Den) > Den
           IN  /\ glitch.ext_offset = IF above_half THEN q + 1 ELSE q
               /\ glitch.offset.n < 0 <=> above_half
        /\ glitch.offset =
              calculate_offset_parameters(glitch, current_offset, ext_only).offset
        /\ glitch.repeat =
              IF current_width < Den THEN 1 ELSE CyclesOf(current_width)
        /\ glitch.width = calculate_width_parameters(glitch, current_width).width
        /\ row_calcs = (cells_done \div GridCols) + 1
        /\ cell_calcs = cells_done + 1

\* a trial of the second cell of a row whose offset has a fraction above one
\* half has returned; the row's offset parameters were computed once
C25_Witness ==
    /\ pc = "trial_ret"
    /\ 2 * FractionOf(current_offset) > Den
    /\ glitch.ext_offset = CyclesOf(current_offset) + 1
    /\ GridCols >= 2
    /\ cells_done = 1
    /\ row_calcs = 1
    /\ cell_calcs = 2

====
